---- MODULE Spec2Model ----
(***************************************************************************)
(* State-machine model of bot_pb_estimator.py: the per-chat session store  *)
(* (USER, UserState, the bounded deque), the estimator functions (streak,  *)
(* counts_from, dirichlet_posterior_mean) and the message handlers.        *)
(*                                                                         *)
(* Texts are sequences of one-character strings so that strip() and        *)
(* upper() are computed rather than assumed.  A float probability          *)
(* (alpha + count) / denom is kept as the exact fraction <<num, den>>: all *)
(* numerators are integers <= 16 over one common denominator <= 18, so     *)
(* float division orders and equates them exactly as the fractions do.     *)
(***************************************************************************)
EXTENDS Integers, Sequences, FiniteSets, TLC

VARIABLES
    USER,   \* dict chat_id -> UserState reference (an index into heap)
    heap,   \* the UserState objects, in creation order
    sent,   \* the message most recently handed to bot.send_message
    req,    \* history variable: the request handled last (chat, command, symbol)
    pre,    \* history variable: USER and heap before the request handled last
    log,    \* history variable: per chat, the symbols appended since the
            \* session was last empty, while nothing was undone
    steps,  \* number of requests handled
    seq,    \* input of the estimator function under test
    res,    \* result of the estimator function under test
    workers \* per worker thread of the bot: the handler invocation it runs
            \* (its message, its position in the code, its local st)

vars == <<USER, heap, sent, req, pre, log, steps, seq, res, workers>>

----------------------------------------------------------------------------
(* Program constants *)

MAX_HISTORY == 300
MIN_FOR_PRED == 10
PRED_WINDOW == 15

(* Bounds of the model *)

MaxSteps == 3
MaxSeqLen == 4
\* worker threads that run handlers at the same time
NumWorkers == 2

KeySeq == <<101, 102>>
Keys == {KeySeq[i] : i \in 1..Len(KeySeq)}
Symbols == {"P", "B", "T"}
None == "None"

Min(a, b) == IF a < b THEN a ELSE b
Max(a, b) == IF a > b THEN a ELSE b

----------------------------------------------------------------------------
(* str.strip() and str.upper() on texts *)

Whitespace == {" ", "\t", "\n"}

LowerCase == <<"a","b","c","d","e","f","g","h","i","j","k","l","m",
               "n","o","p","q","r","s","t","u","v","w","x","y","z">>
UpperCase == <<"A","B","C","D","E","F","G","H","I","J","K","L","M",
               "N","O","P","Q","R","S","T","U","V","W","X","Y","Z">>

RECURSIVE lstrip(_)
lstrip(t) ==
    IF t # <<>> /\ Head(t) \in Whitespace THEN lstrip(Tail(t)) ELSE t

RECURSIVE rstrip(_)
rstrip(t) ==
    IF t # <<>> /\ t[Len(t)] \in Whitespace
    THEN rstrip(SubSeq(t, 1, Len(t) - 1))
    ELSE t

strip(t) == rstrip(lstrip(t))

upper_char(c) ==
    IF \E i \in 1..Len(LowerCase) : LowerCase[i] = c
    THEN UpperCase[CHOOSE i \in 1..Len(LowerCase) : LowerCase[i] = c]
    ELSE c

upper(t) == [i \in 1..Len(t) |-> upper_char(t[i])]

\* normalize_result returning the stripped, upper-cased token itself
normalize_result_token(text) ==
    LET t == upper(strip(text))
    IN  IF t = <<"P">> THEN "P"
        ELSE IF t = <<"P","L","A","Y","E","R">> THEN "PLAYER"
        ELSE IF t = <<"B">> THEN "B"
        ELSE IF t = <<"B","A","N","K","E","R">> THEN "BANKER"
        ELSE IF t = <<"T">> THEN "T"
        ELSE IF t = <<"T","I","E">> THEN "TIE"
        ELSE None
normalize_result(text) ==
    LET t == upper(strip(text))
    IN  IF t \in {<<"P">>, <<"P","L","A","Y","E","R">>} THEN "P"
        ELSE IF t \in {<<"B">>, <<"B","A","N","K","E","R">>} THEN "B"
        ELSE IF t \in {<<"T">>, <<"T","I","E">>} THEN "T"
        ELSE None

(* The keyboard button texts of make_keyboard; an emoji is one named
   character, U+FE0F the variation selector that follows two of them. *)
BTN_P == <<"U+2795", " ", "P">>
BTN_B == <<"U+2795", " ", "B">>
BTN_T == <<"U+2795", " ", "T">>
BTN_RESET == <<"U+1F9F9", " ", "R","e","s","e","t">>
BTN_NEXT == <<"U+25B6", "U+FE0F", " ", "N","e","x","t", " ",
              "P","r","e","d","i","c","t","i","o","n">>
BTN_STATS == <<"U+1F4CA", " ", "S","t","a","t","s">>
BTN_UNDO == <<"U+21A9", "U+FE0F", " ", "U","n","d","o">>
BTN_HELP == <<"U+2753", " ", "H","e","l","p">>

CMD_START == <<"/", "s","t","a","r","t">>
CMD_STATS == <<"/", "s","t","a","t","s">>
CMD_RESET == <<"/", "r","e","s","e","t">>
CMD_UNDO == <<"/", "u","n","d","o">>
CMD_NEXT == <<"/", "n","e","x","t">>

----------------------------------------------------------------------------
(* Python sequence helpers *)

\* list slice h[i:] (i may be negative)
slice_from(h, i) ==
    LET start == IF i < 0 THEN Max(Len(h) + i, 0) ELSE Min(i, Len(h))
    IN  SubSeq(h, start + 1, Len(h))

\* collections.deque(maxlen=MAX_HISTORY)
deque_new == <<>>

\* deque.append on a deque with maxlen: the item goes to the right end and,
\* when that makes the deque longer than maxlen, one item leaves the left end
deque_append_noevict(d, x) == Append(d, x)
deque_append_droptail(d, x) ==
    IF Len(d) >= MAX_HISTORY
    THEN Append(SubSeq(d, 1, Len(d) - 1), x)
    ELSE Append(d, x)
deque_append(d, x) ==
    LET a == Append(d, x)
    IN  IF Len(a) > MAX_HISTORY THEN Tail(a) ELSE a

\* deque.pop(): <<remaining deque, removed item>> (callers guard emptiness)
deque_pop(d) == <<SubSeq(d, 1, Len(d) - 1), d[Len(d)]>>

----------------------------------------------------------------------------
(* Estimator functions *)

RECURSIVE streak_loop(_, _, _, _)
streak_loop(history, last, i, s) ==
    IF i < 1 THEN s
    ELSE IF history[i] = last THEN streak_loop(history, last, i - 1, s + 1)
    ELSE s

\* streak counting every entry equal to the last, without the break
streak_nobreak(history) ==
    IF history = <<>> THEN <<None, 0>>
    ELSE LET last == history[Len(history)]
         IN  <<last, Cardinality({i \in 1..Len(history) : history[i] = last})>>
streak(history) ==
    IF history = <<>> THEN <<None, 0>>
    ELSE LET last == history[Len(history)]
         IN  <<last, streak_loop(history, last, Len(history) - 1, 1)>>

\* sum(1 for x in seq if x == v), the 1s of s[lo..hi] added up; the sum is
\* split in halves to keep the evaluation shallow on a full history
RECURSIVE count_range(_, _, _, _)
count_range(s, v, lo, hi) ==
    IF lo > hi THEN 0
    ELSE IF lo = hi THEN (IF s[lo] = v THEN 1 ELSE 0)
    ELSE count_range(s, v, lo, (lo + hi) \div 2)
         + count_range(s, v, ((lo + hi) \div 2) + 1, hi)

count_eq(s, v) == count_range(s, v, 1, Len(s))

counts_from_swapped(s) ==
    [P |-> count_eq(s, "P"), B |-> count_eq(s, "B"), T |-> count_eq(s, "B")]
counts_from(s) ==
    [P |-> count_eq(s, "P"), B |-> count_eq(s, "B"), T |-> count_eq(s, "T")]

\* iteration order of the dicts built with the keys "P", "B", "T"
KeyOrder == <<"P", "B", "T">>

\* alpha=None is the empty mapping NoAlpha; the default prior replaces it
NoAlpha == [k \in {} |-> 0]
DefaultAlpha == [P |-> 1, B |-> 1, T |-> 1]

\* the posterior mean with the prior left out of the denominator
dirichlet_denom_total(counts, alpha) ==
    LET a == IF DOMAIN alpha = {} THEN DefaultAlpha ELSE alpha
        total == counts["P"] + counts["B"] + counts["T"]
    IN  [k \in DOMAIN a |-> <<a[k] + counts[k], total>>]
\* the posterior mean with twice the prior in the numerator
dirichlet_double_prior(counts, alpha) ==
    LET a == IF DOMAIN alpha = {} THEN DefaultAlpha ELSE alpha
        total == counts["P"] + counts["B"] + counts["T"]
        denom == a["P"] + a["B"] + a["T"] + total
    IN  [k \in DOMAIN a |-> <<2 * a[k] + counts[k], denom>>]
dirichlet_posterior_mean(counts, alpha) ==
    LET a == IF DOMAIN alpha = {} THEN DefaultAlpha ELSE alpha
        total == counts["P"] + counts["B"] + counts["T"]
        denom == a["P"] + a["B"] + a["T"] + total
    IN  [k \in DOMAIN a |-> <<a[k] + counts[k], denom>>]

\* float comparison of two fractions with positive denominators
FracGT(x, y) == x[1] * y[2] > y[1] * x[2]
FracEQ(x, y) == x[1] * y[2] = y[1] * x[2]

\* max(post, key=post.get): the first key, in iteration order, whose value
\* no later key strictly exceeds
RECURSIVE max_loop(_, _, _)
max_loop(post, i, best) ==
    IF i > Len(KeyOrder) THEN best
    ELSE IF FracGT(post[KeyOrder[i]], post[best])
         THEN max_loop(post, i + 1, KeyOrder[i])
         ELSE max_loop(post, i + 1, best)

RECURSIVE max_loop_last(_, _, _)
max_loop_last(post, i, best) ==
    IF i > Len(KeyOrder) THEN best
    ELSE IF ~FracGT(post[best], post[KeyOrder[i]])
         THEN max_loop_last(post, i + 1, KeyOrder[i])
         ELSE max_loop_last(post, i + 1, best)

max_key_last(post) == max_loop_last(post, 2, KeyOrder[1])
max_key(post) == max_loop(post, 2, KeyOrder[1])

----------------------------------------------------------------------------
(* Messages handed to bot.send_message: the branch taken (kind), the chat,
   and the values the text is formatted from. *)

NoCounts == [P |-> 0, B |-> 0, T |-> 0]
NoFracs == [P |-> <<0, 1>>, B |-> <<0, 1>>, T |-> <<0, 1>>]

Msg(kind, chat) ==
    [kind |-> kind, chat |-> chat, n |-> 0, sym |-> None, items |-> <<>>,
     c |-> NoCounts, pct |-> NoFracs, post |-> NoFracs, pick |-> None,
     st_len |-> 0]

NoMsg == Msg("None", 0)

\* the program state the handlers read and write
State(U, H, M) == [USER |-> U, heap |-> H, sent |-> M]

EmptyUSER == [k \in {} |-> 0]
Fresh == State(EmptyUSER, <<>>, NoMsg)

send_message(S, chat_id, msg) == [S EXCEPT !.sent = msg]

UserState(history, last_added) ==
    [history |-> history, last_added |-> last_added]

\* get_state: the state after the lookup and the reference it returns
get_state_shared(S, chat_id) ==
    IF chat_id \notin DOMAIN S.USER
    THEN IF S.heap = <<>>
         THEN [S |-> [S EXCEPT !.USER = (chat_id :> 1) @@ S.USER,
                               !.heap = <<UserState(deque_new, None)>>],
               st |-> 1]
         ELSE [S |-> [S EXCEPT !.USER = (chat_id :> 1) @@ S.USER], st |-> 1]
    ELSE [S |-> S, st |-> S.USER[chat_id]]
get_state(S, chat_id) ==
    IF chat_id \notin DOMAIN S.USER
    THEN LET st == Len(S.heap) + 1
         IN  [S |-> [S EXCEPT !.USER = (chat_id :> st) @@ S.USER,
                              !.heap = Append(S.heap,
                                              UserState(deque_new, None))],
              st |-> st]
    ELSE [S |-> S, st |-> S.USER[chat_id]]

\* send_stats without the n == 0 test: c[k] / n raises on an empty history
send_stats_unguarded(S0, chat_id) ==
    LET g == get_state(S0, chat_id)
        S == g.S
        st == S.heap[g.st]
        h == st.history
        n == Len(h)
        c == counts_from(h)
    IN  IF n = 0
        THEN send_message(S, chat_id, Msg("ZeroDivisionError", chat_id))
        ELSE LET pct == [k \in DOMAIN c |-> <<c[k] * 100, n>>]
                 sk == streak(st.history)
             IN  send_message(S, chat_id,
                     [Msg("Stats", chat_id) EXCEPT
                         !.n = n, !.c = c, !.pct = pct, !.sym = sk[1],
                         !.st_len = sk[2], !.items = slice_from(h, -20)])
send_stats(S0, chat_id) ==
    LET g == get_state(S0, chat_id)
        S == g.S
        st == S.heap[g.st]
        h == st.history
        n == Len(h)
    IN  IF n = 0
        THEN send_message(S, chat_id, Msg("NoData", chat_id))
        ELSE LET c == counts_from(h)
                 pct == [k \in DOMAIN c |-> <<c[k] * 100, n>>]
                 sk == streak(st.history)
             IN  send_message(S, chat_id,
                     [Msg("Stats", chat_id) EXCEPT
                         !.n = n, !.c = c, !.pct = pct, !.sym = sk[1],
                         !.st_len = sk[2], !.items = slice_from(h, -20)])

next_prediction_le(S0, chat_id) ==
    LET g == get_state(S0, chat_id)
        S == g.S
        h == S.heap[g.st].history
        n == Len(h)
    IN  IF n <= MIN_FOR_PRED
        THEN send_message(S, chat_id,
                 [Msg("Insufficient", chat_id) EXCEPT !.n = n])
        ELSE LET window == slice_from(h, -Min(PRED_WINDOW, n))
                 post == dirichlet_posterior_mean(counts_from(window),
                                                  DefaultAlpha)
             IN  send_message(S, chat_id,
                     [Msg("Prediction", chat_id) EXCEPT
                         !.n = Len(window), !.items = window, !.post = post,
                         !.pick = max_key(post)])
next_prediction_head(S0, chat_id) ==
    LET g == get_state(S0, chat_id)
        S == g.S
        h == S.heap[g.st].history
        n == Len(h)
    IN  IF n < MIN_FOR_PRED
        THEN send_message(S, chat_id,
                 [Msg("Insufficient", chat_id) EXCEPT !.n = n])
        ELSE LET window == SubSeq(h, 1, Min(PRED_WINDOW, n))
                 post == dirichlet_posterior_mean(counts_from(window),
                                                  DefaultAlpha)
             IN  send_message(S, chat_id,
                     [Msg("Prediction", chat_id) EXCEPT
                         !.n = Len(window), !.items = window, !.post = post,
                         !.pick = max_key(post)])
\* next_prediction cutting the stored history down to the window
next_prediction_trim(S0, chat_id) ==
    LET g == get_state(S0, chat_id)
        S == g.S
        h == S.heap[g.st].history
        n == Len(h)
    IN  IF n < MIN_FOR_PRED
        THEN send_message(S, chat_id,
                 [Msg("Insufficient", chat_id) EXCEPT !.n = n])
        ELSE LET window == slice_from(h, -Min(PRED_WINDOW, n))
                 c == counts_from(window)
                 post == dirichlet_posterior_mean(c, DefaultAlpha)
             IN  send_message(
                     [S EXCEPT !.heap[g.st].history = window],
                     chat_id,
                     [Msg("Prediction", chat_id) EXCEPT
                         !.n = Len(window), !.items = window, !.c = c,
                         !.post = post, !.pick = max_key(post)])
next_prediction(S0, chat_id) ==
    LET g == get_state(S0, chat_id)
        S == g.S
        h == S.heap[g.st].history
        n == Len(h)
    IN  IF n < MIN_FOR_PRED
        THEN send_message(S, chat_id,
                 [Msg("Insufficient", chat_id) EXCEPT !.n = n])
        ELSE LET window == slice_from(h, -Min(PRED_WINDOW, n))
                 w_n == Len(window)
                 c == counts_from(window)
                 post == dirichlet_posterior_mean(c, DefaultAlpha)
                 pick_key == max_key(post)
             IN  send_message(S, chat_id,
                     [Msg("Prediction", chat_id) EXCEPT
                         !.n = w_n, !.items = window, !.c = c, !.post = post,
                         !.pick = pick_key])

\* do_undo without the emptiness test: deque.pop() on an empty deque raises
do_undo_unguarded(S0, chat_id) ==
    LET g == get_state(S0, chat_id)
        S == g.S
        st == S.heap[g.st]
    IN  IF st.history = <<>>
        THEN send_message(S, chat_id, Msg("IndexError", chat_id))
        ELSE LET p == deque_pop(st.history)
             IN  send_message(
                     [S EXCEPT !.heap[g.st] = UserState(p[1], None)],
                     chat_id, [Msg("Undone", chat_id) EXCEPT !.sym = p[2]])
\* do_undo removing at the left end (popleft)
do_undo_left(S0, chat_id) ==
    LET g == get_state(S0, chat_id)
        S == g.S
        st == S.heap[g.st]
    IN  IF st.history = <<>>
        THEN send_message(S, chat_id, Msg("NothingToUndo", chat_id))
        ELSE send_message(
                 [S EXCEPT !.heap[g.st] = UserState(Tail(st.history), None)],
                 chat_id,
                 [Msg("Undone", chat_id) EXCEPT !.sym = Head(st.history)])
do_undo(S0, chat_id) ==
    LET g == get_state(S0, chat_id)
        S == g.S
        st == S.heap[g.st]
    IN  IF st.history = <<>>
        THEN send_message(S, chat_id, Msg("NothingToUndo", chat_id))
        ELSE LET p == deque_pop(st.history)
                 removed == p[2]
             IN  send_message(
                     [S EXCEPT !.heap[g.st] = UserState(p[1], None)],
                     chat_id, [Msg("Undone", chat_id) EXCEPT !.sym = removed])

\* do_reset rebinding the key to a new UserState instead of clearing in place
do_reset_rebind(S0, chat_id) ==
    LET st == Len(S0.heap) + 1
    IN  send_message(
            [S0 EXCEPT !.USER = (chat_id :> st) @@ S0.USER,
                       !.heap = Append(S0.heap, UserState(deque_new, None))],
            chat_id, Msg("Reset", chat_id))
\* do_reset deleting the key from USER
do_reset_delete(S0, chat_id) ==
    send_message(
        [S0 EXCEPT !.USER = [k \in DOMAIN S0.USER \ {chat_id} |-> S0.USER[k]]],
        chat_id, Msg("Reset", chat_id))
do_reset(S0, chat_id) ==
    LET g == get_state(S0, chat_id)
        S == g.S
    IN  send_message([S EXCEPT !.heap[g.st] = UserState(<<>>, None)],
                     chat_id, Msg("Reset", chat_id))

----------------------------------------------------------------------------
(* Message handlers, as functions of the state, the chat and the text *)

start(S, chat_id) == send_message(S, chat_id, Msg("Start", chat_id))
stats_cmd(S, chat_id) == send_stats(S, chat_id)
reset_cmd(S, chat_id) == do_reset(S, chat_id)
undo_cmd(S, chat_id) == do_undo(S, chat_id)
next_cmd(S, chat_id) == next_prediction(S, chat_id)

\* handle looking the session up before the text is normalized
handle_eager(S1, chat_id, mtext) ==
    LET text == strip(mtext)
        S0 == get_state(S1, chat_id).S
    IN  IF text = BTN_RESET THEN do_reset(S0, chat_id)
        ELSE IF text = BTN_NEXT THEN next_prediction(S0, chat_id)
        ELSE IF text = BTN_STATS THEN send_stats(S0, chat_id)
        ELSE IF text = BTN_UNDO THEN do_undo(S0, chat_id)
        ELSE IF text = BTN_HELP
             THEN send_message(S0, chat_id, Msg("Help", chat_id))
        ELSE LET text2 == IF text = BTN_P THEN <<"P">>
                          ELSE IF text = BTN_B THEN <<"B">>
                          ELSE IF text = BTN_T THEN <<"T">>
                          ELSE text
                 r == normalize_result(text2)
             IN  IF r = None
                 THEN send_message(S0, chat_id, Msg("Unrecognized", chat_id))
                 ELSE LET g == get_state(S0, chat_id)
                          S == g.S
                          history == deque_append(S.heap[g.st].history, r)
                      IN  send_message(
                              [S EXCEPT !.heap[g.st] = UserState(history, r)],
                              chat_id,
                              [Msg("Added", chat_id) EXCEPT
                                  !.sym = r, !.n = Len(history)])
handle(S0, chat_id, mtext) ==
    LET text == strip(mtext)
    IN  IF text = BTN_RESET THEN do_reset(S0, chat_id)
        ELSE IF text = BTN_NEXT THEN next_prediction(S0, chat_id)
        ELSE IF text = BTN_STATS THEN send_stats(S0, chat_id)
        ELSE IF text = BTN_UNDO THEN do_undo(S0, chat_id)
        ELSE IF text = BTN_HELP
             THEN send_message(S0, chat_id, Msg("Help", chat_id))
        ELSE LET text2 == IF text = BTN_P THEN <<"P">>
                          ELSE IF text = BTN_B THEN <<"B">>
                          ELSE IF text = BTN_T THEN <<"T">>
                          ELSE text
                 r == normalize_result(text2)
             IN  IF r = None
                 THEN send_message(S0, chat_id, Msg("Unrecognized", chat_id))
                 ELSE LET g == get_state(S0, chat_id)
                          S == g.S
                          history == deque_append(S.heap[g.st].history, r)
                          n == Len(history)
                      IN  send_message(
                              [S EXCEPT !.heap[g.st] = UserState(history, r)],
                              chat_id,
                              [Msg("Added", chat_id) EXCEPT
                                  !.sym = r, !.n = n])

\* the handler registered for a command: the message text is the command
is_command(text, cmd) == text = cmd

IsAnyCommand(text) ==
    text \in {CMD_START, CMD_STATS, CMD_RESET, CMD_UNDO, CMD_NEXT}

\* telebot runs the first registered handler that matches the message
dispatch(S, chat_id, text) ==
    IF is_command(text, CMD_START) THEN start(S, chat_id)
    ELSE IF is_command(text, CMD_STATS) THEN stats_cmd(S, chat_id)
    ELSE IF is_command(text, CMD_RESET) THEN reset_cmd(S, chat_id)
    ELSE IF is_command(text, CMD_UNDO) THEN undo_cmd(S, chat_id)
    ELSE IF is_command(text, CMD_NEXT) THEN next_cmd(S, chat_id)
    ELSE handle(S, chat_id, text)

----------------------------------------------------------------------------
(* Requests: the texts a chat sends, each with the command it stands for *)

In(text, cmd, sym) == [text |-> text, cmd |-> cmd, sym |-> sym]

Inputs ==
    { In(<<"P">>, "add", "P"), In(<<"b">>, "add", "B"),
      In(<<" ", "t", "\n">>, "add", "T"),
      In(<<"P","l","a","y","e","r">>, "add", "P"),
      In(<<"B","A","N","K","E","R">>, "add", "B"),
      In(<<"t","i","e">>, "add", "T"),
      In(BTN_P, "add", "P"), In(BTN_B, "add", "B"), In(BTN_T, "add", "T"),
      In(CMD_UNDO, "undo", None), In(BTN_UNDO, "undo", None),
      In(CMD_RESET, "reset", None), In(BTN_RESET, "reset", None),
      In(CMD_STATS, "stats", None), In(BTN_STATS, "stats", None),
      In(CMD_NEXT, "next", None), In(BTN_NEXT, "next", None),
      In(CMD_START, "start", None), In(BTN_HELP, "help", None),
      In(<<>>, "other", None), In(<<"x">>, "other", None),
      In(<<"P","B">>, "other", None), In(<<"U+2795","P">>, "other", None),
      In(<<"u","n","d","o">>, "other", None),
      In(<<"T","I","E","S">>, "other", None) }

NoReq == [chat |-> 0, cmd |-> "none", sym |-> None]

----------------------------------------------------------------------------
(* Initial states: the program start, and states reached from it by a chat
   sending n symbols one after the other, for the lengths at which the
   prediction threshold, the window and the history capacity are crossed. *)

Cycle == <<"P", "B", "T">>
Pat(k, i) == Cycle[((i + k) % 3) + 1]

\* the state after chat k has sent its symbols number lo..hi, in order
RECURSIVE Run(_, _, _, _)
Run(S, k, lo, hi) ==
    IF lo > hi THEN S
    ELSE IF lo = hi THEN dispatch(S, k, <<Pat(k, lo)>>)
    ELSE LET mid == (lo + hi) \div 2
             half == Run(S, k, lo, mid)
         IN  \* every message of the run is answered in chat k
             IF half.sent.chat = k THEN Run(half, k, mid + 1, hi) ELSE half

Seeded(ns) == Run(Run(Fresh, KeySeq[1], 1, ns[1]), KeySeq[2], 1, ns[2])

Scenarios ==
    { <<0, 0>>,
      <<MIN_FOR_PRED - 1, PRED_WINDOW - 1>>,
      <<MAX_HISTORY, 0>>,
      <<PRED_WINDOW - 1, MAX_HISTORY - 1>> }

InitStore(ns) ==
    LET S == Seeded(ns)
        last == IF ns[2] > 0 THEN 2 ELSE IF ns[1] > 0 THEN 1 ELSE 0
        before == IF last = 0 THEN Fresh
                  ELSE Seeded([ns EXCEPT ![last] = @ - 1])
    IN  /\ USER = S.USER
        /\ heap = S.heap
        /\ sent = S.sent
        /\ pre = [USER |-> before.USER, heap |-> before.heap]
        /\ req = IF last = 0 THEN NoReq
                 ELSE [chat |-> KeySeq[last], cmd |-> "add",
                       sym |-> Pat(KeySeq[last], ns[last])]
        /\ log = [k \in Keys |->
                    LET j == CHOOSE j \in 1..Len(KeySeq) : KeySeq[j] = k
                    IN  [clean |-> TRUE,
                         seq |-> [i \in 1..ns[j] |-> Pat(k, i)]]]
        /\ steps = 0

NoRes ==
    [fn |-> "none", counts |-> NoCounts, streak |-> <<None, 0>>,
     post |-> NoFracs, pick |-> None]

\* a worker thread that runs no handler
IdleWorker ==
    [pc |-> "idle", chat |-> 0, text |-> <<>>, cmd |-> "none", sym |-> None,
     st |-> 0]
Workers == 1..NumWorkers
Idle == [w \in Workers |-> IdleWorker]

Init ==
    /\ \E ns \in Scenarios : InitStore(ns)
    /\ seq = <<>>
    /\ res = NoRes
    /\ workers = Idle

----------------------------------------------------------------------------
(* One action per registered handler *)

Cur == State(USER, heap, sent)

Record(S, chat_id, in) ==
    /\ USER' = S.USER
    /\ heap' = S.heap
    /\ sent' = S.sent
    /\ pre' = [USER |-> USER, heap |-> heap]
    /\ req' = [chat |-> chat_id, cmd |-> in.cmd, sym |-> in.sym]
    /\ log' = [log EXCEPT ![chat_id] =
                 IF in.cmd = "add"
                 THEN IF @.clean
                      THEN [clean |-> TRUE, seq |-> Append(@.seq, in.sym)]
                      ELSE @
                 ELSE IF in.cmd = "reset"
                 THEN [clean |-> TRUE, seq |-> <<>>]
                 ELSE IF in.cmd = "undo" /\ @.seq # <<>>
                 THEN [clean |-> FALSE, seq |-> <<>>]
                 ELSE @]
    /\ steps' = steps + 1
    /\ UNCHANGED <<seq, res, workers>>

OnStart(chat_id, in) ==
    /\ steps < MaxSteps
    /\ is_command(in.text, CMD_START)
    /\ Record(start(Cur, chat_id), chat_id, in)

OnStatsCmd(chat_id, in) ==
    /\ steps < MaxSteps
    /\ ~is_command(in.text, CMD_START)
    /\ is_command(in.text, CMD_STATS)
    /\ Record(stats_cmd(Cur, chat_id), chat_id, in)

OnResetCmd(chat_id, in) ==
    /\ steps < MaxSteps
    /\ ~\E c \in {CMD_START, CMD_STATS} : is_command(in.text, c)
    /\ is_command(in.text, CMD_RESET)
    /\ Record(reset_cmd(Cur, chat_id), chat_id, in)

OnUndoCmd(chat_id, in) ==
    /\ steps < MaxSteps
    /\ ~\E c \in {CMD_START, CMD_STATS, CMD_RESET} : is_command(in.text, c)
    /\ is_command(in.text, CMD_UNDO)
    /\ Record(undo_cmd(Cur, chat_id), chat_id, in)

OnNextCmd(chat_id, in) ==
    /\ steps < MaxSteps
    /\ ~\E c \in {CMD_START, CMD_STATS, CMD_RESET, CMD_UNDO} :
           is_command(in.text, c)
    /\ is_command(in.text, CMD_NEXT)
    /\ Record(next_cmd(Cur, chat_id), chat_id, in)

OnMessage(chat_id, in) ==
    /\ steps < MaxSteps
    /\ ~IsAnyCommand(in.text)
    /\ Record(handle(Cur, chat_id, in.text), chat_id, in)

Next ==
    \/ \E chat_id \in Keys, in \in Inputs : OnStart(chat_id, in)
    \/ \E chat_id \in Keys, in \in Inputs : OnStatsCmd(chat_id, in)
    \/ \E chat_id \in Keys, in \in Inputs : OnResetCmd(chat_id, in)
    \/ \E chat_id \in Keys, in \in Inputs : OnUndoCmd(chat_id, in)
    \/ \E chat_id \in Keys, in \in Inputs : OnNextCmd(chat_id, in)
    \/ \E chat_id \in Keys, in \in Inputs : OnMessage(chat_id, in)

Spec == Init /\ [][Next]_vars

----------------------------------------------------------------------------
(* The estimator functions applied to every short sequence of symbols *)

RECURSIVE SeqsOfLen(_)
SeqsOfLen(n) ==
    IF n = 0 THEN {<<>>}
    ELSE {Append(s, x) : s \in SeqsOfLen(n - 1), x \in Symbols}

SeqsUpTo(n) == UNION {SeqsOfLen(m) : m \in 0..n}

\* longer inputs: a 15-entry window of 7 P, 5 B, 3 T, a 6-entry history,
\* and a history of one repeated symbol
Examples ==
    { [i \in 1..15 |-> IF i <= 7 THEN "P" ELSE IF i <= 12 THEN "B" ELSE "T"],
      <<"P", "P", "B", "B", "B", "T">>,
      [i \in 1..PRED_WINDOW |-> "T"] }

InitEst ==
    /\ USER = Fresh.USER
    /\ heap = Fresh.heap
    /\ sent = Fresh.sent
    /\ pre = [USER |-> Fresh.USER, heap |-> Fresh.heap]
    /\ req = NoReq
    /\ log = [k \in Keys |-> [clean |-> TRUE, seq |-> <<>>]]
    /\ steps = 0
    /\ seq \in SeqsUpTo(MaxSeqLen) \cup Examples
    /\ res = NoRes
    /\ workers = Idle

ApplyCounts ==
    /\ res = NoRes
    /\ res' = [NoRes EXCEPT !.fn = "counts_from", !.counts = counts_from(seq)]
    /\ UNCHANGED <<USER, heap, sent, req, pre, log, steps, seq, workers>>

ApplyStreak ==
    /\ res = NoRes
    /\ res' = [NoRes EXCEPT !.fn = "streak", !.streak = streak(seq)]
    /\ UNCHANGED <<USER, heap, sent, req, pre, log, steps, seq, workers>>

\* the smoothing step of next_prediction on seq as the window, under the
\* default prior, and the pick taken from it
ApplyPosterior ==
    /\ res = NoRes
    /\ LET c == counts_from(seq)
           post == dirichlet_posterior_mean(c, NoAlpha)
       IN  res' = [NoRes EXCEPT !.fn = "dirichlet_posterior_mean",
                                !.counts = c, !.post = post,
                                !.pick = max_key(post)]
    /\ UNCHANGED <<USER, heap, sent, req, pre, log, steps, seq, workers>>

NextEst == ApplyCounts \/ ApplyStreak \/ ApplyPosterior

SpecEst == InitEst /\ [][NextEst]_vars

----------------------------------------------------------------------------
(* Handlers run at the same time by the bot's worker threads.  A step is one
   operation the interpreter runs without switching threads: the membership
   test, the dict store, the dict load, one deque method.  Each worker runs
   one mutating handler invocation (an added symbol, undo or reset) from the
   start of get_state to the end of the handler. *)

ConcInputs ==
    { In(<<"P">>, "add", "P"), In(<<"B">>, "add", "B"),
      In(CMD_UNDO, "undo", None), In(CMD_RESET, "reset", None) }

Job(chat_id, in) ==
    [pc |-> "get_state_test", chat |-> chat_id, text |-> in.text,
     cmd |-> in.cmd, sym |-> in.sym, st |-> 0]

InitConc ==
    /\ \E n \in 0..1 :
         LET S == Seeded(<<n, 0>>)
         IN  /\ USER = S.USER
             /\ heap = S.heap
             /\ pre = [USER |-> S.USER, heap |-> S.heap]
    /\ sent = NoMsg
    /\ req = NoReq
    /\ log = [k \in Keys |-> [clean |-> TRUE, seq |-> <<>>]]
    /\ steps = 0
    /\ seq = <<>>
    /\ res = NoRes
    /\ workers \in [Workers -> {Job(k, in) : k \in Keys, in \in ConcInputs}]

Goto(w, pc) == workers' = [workers EXCEPT ![w].pc = pc]

\* get_state: if chat_id not in USER
GetStateTest(w) ==
    /\ workers[w].pc = "get_state_test"
    /\ Goto(w, IF workers[w].chat \notin DOMAIN USER
               THEN "get_state_create" ELSE "get_state_return")
    /\ UNCHANGED <<USER, heap, sent, req, pre, log, steps, seq, res>>

\* get_state: USER[chat_id] = UserState(history=deque(maxlen=MAX_HISTORY))
GetStateCreate(w) ==
    /\ workers[w].pc = "get_state_create"
    /\ heap' = Append(heap, UserState(deque_new, None))
    /\ USER' = [k \in DOMAIN USER \cup {workers[w].chat} |->
                  IF k = workers[w].chat THEN Len(heap) + 1 ELSE USER[k]]
    /\ Goto(w, "get_state_return")
    /\ UNCHANGED <<sent, req, pre, log, steps, seq, res>>

\* get_state: return USER[chat_id], and the handler goes on with st
GetStateReturn(w) ==
    /\ workers[w].pc = "get_state_return"
    /\ workers' = [workers EXCEPT
                     ![w].st = USER[workers[w].chat],
                     ![w].pc = CASE workers[w].cmd = "add" -> "append"
                                 [] workers[w].cmd = "undo" -> "undo_test"
                                 [] OTHER -> "clear"]
    /\ UNCHANGED <<USER, heap, sent, req, pre, log, steps, seq, res>>

\* handle: st.history.append(r)
HandleAppend(w) ==
    /\ workers[w].pc = "append"
    /\ heap' = [heap EXCEPT ![workers[w].st].history =
                              deque_append(@, normalize_result(workers[w].text))]
    /\ Goto(w, "finish")
    /\ UNCHANGED <<USER, sent, req, pre, log, steps, seq, res>>

\* do_undo: if not st.history
UndoTest(w) ==
    /\ workers[w].pc = "undo_test"
    /\ IF heap[workers[w].st].history = <<>>
       THEN /\ sent' = Msg("NothingToUndo", workers[w].chat)
            /\ Goto(w, "done")
       ELSE /\ sent' = sent
            /\ Goto(w, "pop")
    /\ UNCHANGED <<USER, heap, req, pre, log, steps, seq, res>>

\* do_undo: removed = st.history.pop(), which raises IndexError on an empty
\* deque
UndoPop(w) ==
    /\ workers[w].pc = "pop"
    /\ IF heap[workers[w].st].history = <<>>
       THEN /\ heap' = heap
            /\ Goto(w, "IndexError")
       ELSE LET p == deque_pop(heap[workers[w].st].history)
            IN  /\ heap' = [heap EXCEPT ![workers[w].st].history = p[1]]
                /\ workers' = [workers EXCEPT ![w].sym = p[2],
                                              ![w].pc = "finish"]
    /\ UNCHANGED <<USER, sent, req, pre, log, steps, seq, res>>

\* do_reset: st.history.clear()
ResetClear(w) ==
    /\ workers[w].pc = "clear"
    /\ heap' = [heap EXCEPT ![workers[w].st].history = <<>>]
    /\ Goto(w, "finish")
    /\ UNCHANGED <<USER, sent, req, pre, log, steps, seq, res>>

\* the handler's last statements: st.last_added is set and the reply is sent
Finish(w) ==
    /\ workers[w].pc = "finish"
    /\ LET me == workers[w]
       IN  /\ heap' = [heap EXCEPT ![me.st].last_added =
                          IF me.cmd = "add" THEN me.sym ELSE None]
           /\ sent' = IF me.cmd = "add"
                      THEN [Msg("Added", me.chat) EXCEPT
                               !.sym = me.sym,
                               !.n = Len(heap[me.st].history)]
                      ELSE IF me.cmd = "undo"
                      THEN [Msg("Undone", me.chat) EXCEPT !.sym = me.sym]
                      ELSE Msg("Reset", me.chat)
    /\ Goto(w, "done")
    /\ UNCHANGED <<USER, req, pre, log, steps, seq, res>>

NextConc ==
    \/ \E w \in Workers : GetStateTest(w)
    \/ \E w \in Workers : GetStateCreate(w)
    \/ \E w \in Workers : GetStateReturn(w)
    \/ \E w \in Workers : HandleAppend(w)
    \/ \E w \in Workers : UndoTest(w)
    \/ \E w \in Workers : UndoPop(w)
    \/ \E w \in Workers : ResetClear(w)
    \/ \E w \in Workers : Finish(w)

SpecConc == InitConc /\ [][NextConc]_vars

----------------------------------------------------------------------------
(* Properties *)

\* the history of chat k in a store; a chat never seen has no entries
Hist(U, H, k) == IF k \in DOMAIN U THEN H[U[k]].history ELSE <<>>
History(k) == Hist(USER, heap, k)
PreHistory(k) == Hist(pre.USER, pre.heap, k)

\* the last n elements of s, in order
LastN(s, n) == [i \in 1..n |-> s[Len(s) - n + i]]

Occurrences(s, v) == Cardinality({i \in 1..Len(s) : s[i] = v})

Priority == [P |-> 1, B |-> 2, T |-> 3]

\* C1: in every reachable state every session's history holds between 0 and
\* MAX_HISTORY entries.
C1_HistoryBounded ==
    \A i \in 1..Len(heap) :
        /\ Len(heap[i].history) >= 0
        /\ Len(heap[i].history) <= MAX_HISTORY

C1_Witness ==
    /\ req.cmd = "add"
    /\ Len(PreHistory(req.chat)) = MAX_HISTORY
    /\ Len(History(req.chat)) = MAX_HISTORY

\* C2: appending to a full history removes exactly the oldest entry, keeps
\* the others in order and puts the new symbol last; after more than
\* MAX_HISTORY appends to an empty history with no undo or reset in between,
\* the history is the last MAX_HISTORY appended symbols in order.
C2_FifoEviction ==
    /\ (req.cmd = "add" /\ Len(PreHistory(req.chat)) = MAX_HISTORY)
         => History(req.chat) = Append(Tail(PreHistory(req.chat)), req.sym)
    /\ \A k \in Keys :
         (log[k].clean /\ Len(log[k].seq) > MAX_HISTORY)
           => History(k) = LastN(log[k].seq, MAX_HISTORY)

C2_Witness ==
    /\ req.cmd = "add"
    /\ log[req.chat].clean
    /\ Len(log[req.chat].seq) > MAX_HISTORY + 1
    /\ Len(PreHistory(req.chat)) = MAX_HISTORY

\* C3: an append to a history with room, immediately followed by undo in the
\* same chat, gives back the history as it was before the append, one entry
\* shorter than after it, and undo reports the appended symbol as removed.
C3_RoundTrip ==
    [][\A k \in Keys :
         (/\ req.cmd = "add" /\ req.chat = k
          /\ Len(PreHistory(k)) < MAX_HISTORY
          /\ req'.cmd = "undo" /\ req'.chat = k
          /\ steps' = steps + 1)
           => /\ Hist(USER', heap', k) = PreHistory(k)
              /\ Len(Hist(USER', heap', k)) = Len(History(k)) - 1
              /\ sent'.kind = "Undone"
              /\ sent'.sym = req.sym]_vars

C3_Witness ==
    /\ steps >= 2
    /\ req.cmd = "undo"
    /\ sent.kind = "Undone"
    /\ req.chat \in DOMAIN pre.USER
    /\ pre.heap[pre.USER[req.chat]].last_added = sent.sym
    /\ Len(PreHistory(req.chat)) < MAX_HISTORY

\* C4: undo in a chat whose history is empty, a chat never seen included,
\* answers "nothing to undo", removes nothing from any session, leaves the
\* history empty and raises no error.
C4_UndoOnEmpty ==
    (req.cmd = "undo" /\ PreHistory(req.chat) = <<>>)
      => /\ sent.kind = "NothingToUndo"
         /\ sent.chat = req.chat
         /\ History(req.chat) = <<>>
         /\ \A i \in 1..Len(pre.heap) : heap[i] = pre.heap[i]

C4_Witness ==
    /\ req.cmd = "undo"
    /\ req.chat \notin DOMAIN pre.USER
    /\ sent.kind = "NothingToUndo"

\* C5: reset leaves the chat's history empty whatever it held, and keeps the
\* session: the key stays bound to the UserState it was bound to, and the
\* next lookup returns that object without creating one.
C5_ResetKeepsSession ==
    req.cmd = "reset"
      => LET k == req.chat
             g == get_state(Cur, k)
         IN  /\ k \in DOMAIN USER
             /\ History(k) = <<>>
             /\ k \in DOMAIN pre.USER
                  => (USER[k] = pre.USER[k] /\ Len(heap) = Len(pre.heap))
             /\ g.st = USER[k]
             /\ g.S = Cur
             /\ g.S.heap[g.st].history = <<>>

C5_Witness ==
    /\ req.cmd = "reset"
    /\ Len(PreHistory(req.chat)) >= MIN_FOR_PRED
    /\ sent.kind = "Reset"

\* C6: a command handled for one chat leaves every other chat as it was
\* (registered or not, same UserState, same contents), and no two chats are
\* bound to one UserState.
C6_SessionsIndependent ==
    /\ \A k \in Keys \ {req.chat} :
         /\ (k \in DOMAIN USER) <=> (k \in DOMAIN pre.USER)
         /\ k \in DOMAIN USER
              => /\ USER[k] = pre.USER[k]
                 /\ heap[USER[k]] = pre.heap[pre.USER[k]]
    /\ \A k1 \in DOMAIN USER, k2 \in DOMAIN USER :
         k1 # k2 => USER[k1] # USER[k2]

C6_Witness ==
    /\ steps >= 1
    /\ req.cmd \in {"add", "undo", "reset"}
    /\ History(req.chat) # PreHistory(req.chat)
    /\ \E k \in Keys \ {req.chat} : History(k) # <<>>

\* C7: a prediction request on a history of n < MIN_FOR_PRED entries is
\* answered "insufficient data" with exactly n and no pick; a pick is given
\* only when n >= MIN_FOR_PRED.
C7_InsufficientData ==
    /\ req.cmd = "next"
         => IF Len(PreHistory(req.chat)) < MIN_FOR_PRED
            THEN /\ sent.kind = "Insufficient"
                 /\ sent.chat = req.chat
                 /\ sent.n = Len(PreHistory(req.chat))
                 /\ sent.pick = None
            ELSE sent.kind = "Prediction"
    /\ (sent.kind = "Prediction" \/ sent.pick # None)
         => /\ req.cmd = "next"
            /\ Len(History(sent.chat)) >= MIN_FOR_PRED

C7_Witness ==
    /\ steps >= 1
    /\ req.cmd = "next"
    /\ sent.kind = "Insufficient"
    /\ sent.n = MIN_FOR_PRED - 1

\* C8: a prediction on a history of n >= 10 entries uses as its window
\* exactly the last min(15, n) entries, in order; the window holds between
\* 10 and 15 entries.
C8_WindowIsSuffix ==
    sent.kind = "Prediction"
      => LET h == History(sent.chat)
             m == IF Len(h) < 15 THEN Len(h) ELSE 15
         IN  /\ sent.items = LastN(h, m)
             /\ sent.n = m
             /\ Len(sent.items) >= 10
             /\ Len(sent.items) <= 15

C8_Witness ==
    /\ steps >= 1
    /\ sent.kind = "Prediction"
    /\ Len(History(sent.chat)) > PRED_WINDOW
    /\ sent.items # SubSeq(History(sent.chat), 1, PRED_WINDOW)

\* C9: the probabilities of a prediction are (1 + occurrences in the window)
\* over (3 + window length), the pick has the highest of them, and among
\* symbols tied for the highest the pick is the first of Player, Banker, Tie.
C9_PickIsMaxWithPriority ==
    sent.kind = "Prediction"
      => /\ \A s \in Symbols :
              sent.post[s] = <<1 + Occurrences(sent.items, s),
                               3 + Len(sent.items)>>
         /\ sent.pick \in Symbols
         /\ \A s \in Symbols :
              sent.post[s][1] * sent.post[sent.pick][2]
                <= sent.post[sent.pick][1] * sent.post[s][2]
         /\ \A s \in Symbols :
              sent.post[s] = sent.post[sent.pick]
                => Priority[sent.pick] <= Priority[s]

C9_Witness ==
    /\ steps >= 1
    /\ sent.kind = "Prediction"
    /\ sent.pick = "B"
    /\ sent.post["B"] = sent.post["T"]
    /\ sent.post["P"] # sent.post["B"]

\* C10: for every sequence over P, B, T, the empty one included, counts_from
\* gives for each of the three symbols its exact number of occurrences (0
\* when absent), and the three counts add up to the length.
C10_CountsExact ==
    res.fn = "counts_from"
      => /\ DOMAIN res.counts = Symbols
         /\ \A s \in Symbols : res.counts[s] = Occurrences(seq, s)
         /\ res.counts["P"] + res.counts["B"] + res.counts["T"] = Len(seq)

C10_Witness ==
    /\ res.fn = "counts_from"
    /\ Len(seq) = 3
    /\ res.counts = [P |-> 2, B |-> 0, T |-> 1]

\* C11: streak gives (none, 0) for the empty sequence; for a non-empty one
\* it gives the last element and k >= 1, the length of the longest run of
\* elements equal to the last one that ends the sequence.
C11_StreakIsTailRun ==
    res.fn = "streak"
      => IF seq = <<>> THEN res.streak = <<None, 0>>
         ELSE LET n == Len(seq)
                  k == res.streak[2]
              IN  /\ res.streak[1] = seq[n]
                  /\ k >= 1
                  /\ k <= n
                  /\ \A i \in (n - k + 1)..n : seq[i] = seq[n]
                  /\ k < n => seq[n - k] # seq[n]

C11_Witness ==
    /\ res.fn = "streak"
    /\ seq = <<"P", "B", "B", "B">>
    /\ res.streak = <<"B", 3>>

\* C12: for any window, the empty one included, the numerators of the three
\* smoothed probabilities add up to their common denominator, so the
\* probabilities sum to 1; for the empty window each is exactly 1/3.
C12_PosteriorSumsToOne ==
    res.fn = "dirichlet_posterior_mean"
      => /\ DOMAIN res.post = Symbols
         /\ \A s \in Symbols :
              /\ res.post[s][2] = res.post["P"][2]
              /\ res.post[s][2] > 0
              /\ res.post[s][1] >= 0
         /\ res.post["P"][1] + res.post["B"][1] + res.post["T"][1]
              = res.post["P"][2]
         /\ seq = <<>> => \A s \in Symbols : res.post[s][1] * 3 = res.post[s][2]

C12_Witness ==
    /\ res.fn = "dirichlet_posterior_mean"
    /\ seq = <<>>
    /\ res.post = [P |-> <<1, 3>>, B |-> <<1, 3>>, T |-> <<1, 3>>]

\* C16: for every window and symbol s the smoothed probability is
\* (1 + occurrences of s) / (3 + window length); a 15-entry window of 7 P,
\* 5 B, 3 T gives 8/18, 6/18, 4/18 and the pick Player.
C16_PosteriorFormula ==
    res.fn = "dirichlet_posterior_mean"
      => /\ \A s \in Symbols :
              res.post[s] = <<1 + Occurrences(seq, s), 3 + Len(seq)>>
         /\ (/\ Len(seq) = 15
             /\ Occurrences(seq, "P") = 7
             /\ Occurrences(seq, "B") = 5
             /\ Occurrences(seq, "T") = 3)
              => /\ res.post = [P |-> <<8, 18>>, B |-> <<6, 18>>,
                                T |-> <<4, 18>>]
                 /\ res.pick = "P"

C16_Witness ==
    /\ res.fn = "dirichlet_posterior_mean"
    /\ Len(seq) = 15
    /\ res.counts = [P |-> 7, B |-> 5, T |-> 3]
    /\ res.pick = "P"

\* the UserState chat k is bound to in a store, 0 when it is bound to none
Bound(U, k) == IF k \in DOMAIN U THEN U[k] ELSE 0

\* the commands whose handler looks the session up
Lookups == {"add", "undo", "reset", "stats", "next"}

\* C13: a statistics request on an empty history (a chat never seen, or one
\* emptied by reset or by undo) is answered "no data" and computes no
\* percentage; every statistics message that carries percentages divides by
\* a positive length.
C13_StatsOnEmpty ==
    /\ (req.cmd = "stats" /\ PreHistory(req.chat) = <<>>)
         => /\ sent.kind = "NoData"
            /\ sent.chat = req.chat
            /\ sent.pct = NoFracs
    /\ req.cmd = "stats"
         => /\ sent.kind \in {"NoData", "Stats"}
            /\ sent.kind = "Stats"
                 => \A s \in Symbols :
                      sent.pct[s] = <<100 * Occurrences(History(req.chat), s),
                                      Len(History(req.chat))>>
                      /\ sent.pct[s][2] > 0

C13_Witness ==
    /\ steps >= 2
    /\ req.cmd = "stats"
    /\ req.chat \in DOMAIN pre.USER
    /\ PreHistory(req.chat) = <<>>
    /\ sent.kind = "NoData"

\* C14: a text that is no command and no button and does not normalize to a
\* symbol is answered "not recognized" and changes nothing in the store: no
\* history changes and no session is created.
C14_UnrecognizedRejected ==
    req.cmd = "other"
      => /\ sent.kind = "Unrecognized"
         /\ sent.chat = req.chat
         /\ USER = pre.USER
         /\ heap = pre.heap

C14_Witness ==
    /\ steps >= 1
    /\ req.cmd = "other"
    /\ req.chat \notin DOMAIN USER
    /\ \E k \in Keys : History(k) # <<>>

\* C17: a statistics or prediction request, whatever branch it takes, leaves
\* every chat's history as it was, in contents and order, and changes no
\* existing UserState.
C17_QueriesReadOnly ==
    req.cmd \in {"stats", "next"}
      => /\ \A k \in Keys : History(k) = PreHistory(k)
         /\ \A i \in 1..Len(pre.heap) : heap[i] = pre.heap[i]
         /\ \A k \in DOMAIN pre.USER : Bound(USER, k) = pre.USER[k]

C17_Witness ==
    /\ steps >= 1
    /\ req.cmd = "next"
    /\ sent.kind = "Prediction"
    /\ Len(History(req.chat)) > PRED_WINDOW

\* C18: in every reachable state every entry of every history is one of
\* P, B, T, and so is last_added when it is set.
C18_OnlySymbols ==
    \A i \in 1..Len(heap) :
        /\ \A j \in 1..Len(heap[i].history) : heap[i].history[j] \in Symbols
        /\ heap[i].last_added \in Symbols \cup {None}

C18_Witness ==
    /\ steps = MaxSteps
    /\ req.cmd = "add"
    /\ Len(History(req.chat)) = MaxSteps
    /\ History(req.chat)[1] = "B"
    /\ History(req.chat)[2] = "T"

\* C19: a key enters USER only through a command of that chat that looks
\* the session up, bound to a new UserState that is empty before the command
\* acts on it; every such command leaves its chat registered; and a
\* registered key is never removed nor bound to another UserState.
C19_KeysOnlyGrow ==
    [][/\ \A k \in DOMAIN USER :
            k \in DOMAIN USER' /\ USER'[k] = USER[k]
       /\ \A k \in DOMAIN USER' \ DOMAIN USER :
            /\ k = req'.chat
            /\ req'.cmd \in Lookups
            /\ USER'[k] = Len(heap) + 1
            /\ Len(heap') = Len(heap) + 1
            /\ heap'[USER'[k]].history
                 = IF req'.cmd = "add" THEN <<req'.sym>> ELSE <<>>
       /\ (steps' = steps + 1 /\ req'.cmd \in Lookups)
            => req'.chat \in DOMAIN USER']_vars

C19_Witness ==
    /\ steps = MaxSteps
    /\ req.cmd = "reset"
    /\ Len(heap) = Len(KeySeq)
    /\ Len(pre.heap) = Len(KeySeq)
    /\ USER[KeySeq[1]] = 2
    /\ USER[KeySeq[2]] = 1

\* C20: when a history holds MAX_HISTORY entries, an append followed at once
\* by undo in the same chat does not give the old history back: what is left
\* is the old history without its oldest entry, MAX_HISTORY - 1 long; and an
\* undo only ever removes the newest entry, so no further undo brings the
\* evicted entry back.
C20_NoRoundTripAtCapacity ==
    [][\A k \in Keys :
         /\ (/\ req.cmd = "add" /\ req.chat = k
             /\ Len(PreHistory(k)) = MAX_HISTORY
             /\ req'.cmd = "undo" /\ req'.chat = k
             /\ steps' = steps + 1)
              => /\ Hist(USER', heap', k) = Tail(PreHistory(k))
                 /\ Len(Hist(USER', heap', k)) = MAX_HISTORY - 1
                 /\ Hist(USER', heap', k) # PreHistory(k)
         /\ (req'.cmd = "undo" /\ req'.chat = k /\ steps' = steps + 1)
              => /\ Len(Hist(USER', heap', k)) <= Len(History(k))
                 /\ Hist(USER', heap', k)
                      = SubSeq(History(k), 1, Len(Hist(USER', heap', k)))]_vars

C20_Witness ==
    /\ steps = 3
    /\ req.cmd = "undo"
    /\ sent.kind = "Undone"
    /\ Len(History(KeySeq[1])) = MAX_HISTORY - 2
    /\ History(KeySeq[1]) = [i \in 1..(MAX_HISTORY - 2) |-> Pat(KeySeq[1], i + 1)]

\* the orders in which the workers' invocations can run one after the other
Orders ==
    {o \in [Workers -> Workers] : \A a, b \in Workers : a # b => o[a] # o[b]}

\* the store after the first i invocations of order o have run, each as a
\* whole, from the store the workers started on
RECURSIVE InOrder(_, _)
InOrder(o, i) ==
    IF i = 0 THEN State(pre.USER, pre.heap, NoMsg)
    ELSE dispatch(InOrder(o, i - 1), workers[o[i]].chat, workers[o[i]].text)

AllDone == \A w \in Workers : workers[w].pc \in {"done", "IndexError"}

\* C15: when handler invocations run at the same time, every interleaving
\* ends with each chat's history equal to the one some sequential order of
\* the same invocations gives (no append is lost), and no undo removes from
\* an empty history.
C15_Serialized ==
    AllDone
      => /\ \A w \in Workers : workers[w].pc # "IndexError"
         /\ \E o \in Orders :
              \A k \in Keys :
                Hist(USER, heap, k)
                  = LET S == InOrder(o, NumWorkers) IN Hist(S.USER, S.heap, k)

====
